---- MODULE Spec2Model ----
(***************************************************************************)
(* Model of the seedling pipeline of tensorscale/garden, quality-check     *)
(* variant (src/unnamed/part_000, lines 886-2118): the seedlings table,    *)
(* the repository under repos/default, process start (init), the HTTP      *)
(* handlers CreateSeedling, UpdateSeedling and DeleteSeedling,             *)
(* cleanFilePath, and the worker goroutine gptThread with its helpers gpt, *)
(* runSeedling and QualityCheck.Error; and the gptThread of the three-     *)
(* stage variant (src/garden/main.go, lines 810-1150).                     *)
(*                                                                         *)
(* One gptThread goroutine is a record worker[t]; the loop body is cut at  *)
(* its blocking calls: loop head (pc "top"), prompt built (pc "gen"), gpt  *)
(* returned (pc "run"), in the build command (pc "build", "hung"),         *)
(* runSeedling returned (pc "ret"), and "exit".                            *)
(***************************************************************************)
EXTENDS Integers, Sequences, FiniteSets, TLC

\* ---------------------------------------------------------------- bounds
NumTasks == 3          \* ids of the seedlings table that the model draws
PromptWindow == 5      \* trailing segments of prompt kept (with its length)
MaxCrashes == 1        \* process exits followed by a restart
CountCap == 4          \* per-stage observation counters saturate here
MaxDeletes == 1        \* DELETE requests that are answered in a run
BuildRetries == 1      \* failed attempts after which no build is started
MaxLen == 3            \* length of the strings given to cleanFilePath

Tasks == 1..NumTasks
SingleTask == {1}

\* ------------------------------------------------------- program constants
maxErrs == 15          \* gptThread: maxErrs := 15
gateMaxErrs == 5       \* runSeedling: maxErrs := 5
tailLines == 25        \* gptThread: len(lines) > 25

SeedlingStepProtobufs == "SeedlingStepProtobufs"
SeedlingStepServer == "SeedlingStepServer"
SeedlingStepDockerfile == "SeedlingStepDockerfile"
SeedlingStepExampleClientCall == "SeedlingStepExampleClientCall"
SeedlingStepComplete == "SeedlingStepComplete"

\* gptThread: steps := []string{...}; Go index i is steps[i + 1] here.
steps ==
  << SeedlingStepProtobufs, SeedlingStepServer, SeedlingStepDockerfile,
     SeedlingStepExampleClientCall, SeedlingStepComplete >>

StepAt(i) == steps[i + 1]

\* Position of a step value in the fixed order (0-based).
StepIndex(s) == CHOOSE i \in 0..(Len(steps) - 1) : StepAt(i) = s

\* switch steps[step]: codeType of each stage.
codeType(i) ==
  CASE StepAt(i) = SeedlingStepProtobufs -> "proto"
    [] StepAt(i) = SeedlingStepServer -> "go"
    [] StepAt(i) = SeedlingStepDockerfile -> "dockerfile"
    [] StepAt(i) = SeedlingStepExampleClientCall -> "bash"
    [] OTHER -> ""

\* No row / no file.
Absent == "absent"

Min(a, b) == IF a < b THEN a ELSE b

\* ------------------------------------------------------------ text values
\* Generated text is a sequence of tokens: Fence is the three-backquote
\* mark, a code-type word
\* follows an opening fence, " " is white space, other tokens are content.
Fence == "FENCE"
IsSpace(tok) == tok \in { " ", "\t" }

RECURSIVE TrimLeft(_)
TrimLeft(s) ==
  IF s # << >> /\ IsSpace(Head(s)) THEN TrimLeft(Tail(s)) ELSE s

RECURSIVE TrimRight(_)
TrimRight(s) ==
  IF s # << >> /\ IsSpace(s[Len(s)])
    THEN TrimRight(SubSeq(s, 1, Len(s) - 1))
    ELSE s

\* strings.TrimSpace
TrimSpace(s) == TrimRight(TrimLeft(s))

\* strings.TrimPrefix(s, p)
TrimPrefix(s, p) ==
  IF Len(s) >= Len(p) /\ SubSeq(s, 1, Len(p)) = p
    THEN SubSeq(s, Len(p) + 1, Len(s))
    ELSE s

\* strings.TrimSuffix(s, p)
TrimSuffix(s, p) ==
  IF Len(s) >= Len(p) /\ SubSeq(s, Len(s) - Len(p) + 1, Len(s)) = p
    THEN SubSeq(s, 1, Len(s) - Len(p))
    ELSE s

\* runSeedling: the three trims applied to gptOut before the empty check.
CleanOutput(gptOut, ct) ==
  TrimSpace(TrimSuffix(TrimPrefix(gptOut, << Fence, ct >>), << Fence >>))

\* Completions the oracle returns to gpt (cut at the stop sequence, so
\* without a Fence): white space only, and two programs.
Blank == << " " >>
Outputs == { Blank, << "a", " " >>, << " ", "b" >> }

\* Answers of the oracle to the quality prompt: not JSON, or a parsed
\* QualityCheck.
Unparseable == [quality |-> "?", reason |-> "", suggestions |-> ""]
Verdicts ==
  { [quality |-> "good", reason |-> "r0", suggestions |-> "none"],
    [quality |-> "bad", reason |-> "r1", suggestions |-> "s1"],
    [quality |-> "bad", reason |-> "r2", suggestions |-> "s2"] }

\* Line counts of the combined output of a failing build command; 0 is the
\* empty output.
BuildOutputs == { 0, tailLines + 1 }

\* ------------------------------------------------------------------- names
\* A name is a sequence of characters. \w of the regular expression is a
\* letter, a digit or "_".
IsWordChar(c) == c \in { "a", "b", "c", "A", "B", "C", "0", "_" }
IsValidChar(c) == IsWordChar(c) \/ c \in { "-", "." }

\* strings.ToLower on one character.
ToLower(c) ==
  CASE c = "A" -> "a" [] c = "B" -> "b" [] c = "C" -> "c" [] OTHER -> c

\* strings.ReplaceAll(s, " ", "_")
ReplaceSpaces(s) ==
  [k \in 1..Len(s) |-> IF s[k] = " " THEN "_" ELSE s[k]]

\* Mutant of cleanFilePath: strings.ToLower is left out.
cleanFilePathNoLower(file) ==
  SelectSeq(ReplaceSpaces(TrimSpace(file)), IsValidChar)

\* cleanFilePath: trim, spaces to "_", drop what is not [\w-.], lower case.
cleanFilePath(file) ==
  LET cleanedPath == SelectSeq(ReplaceSpaces(TrimSpace(file)), IsValidChar)
  IN [k \in 1..Len(cleanedPath) |-> ToLower(cleanedPath[k])]

\* The names of the requests, and the directories under repos/default they
\* give.
Names == { << "A", " ", "b" >>, << "a", "_", "b" >>, << "c", "/" >> }
Dirs == { cleanFilePath(n) : n \in Names }
NoName == << >>

\* The characters of the strings given to cleanFilePath on its own: letters
\* of both cases, a digit, the space and the tab, a character outside the
\* class ("/"), and "_", "-", ".".
Chars == { "A", "b", "0", "_", " ", "\t", "/", "-", "." }
Inputs == UNION { [1..n -> Chars] : n \in 0..MaxLen }

\* ------------------------------------------------------------------ errors
\* An error value is its message; nil is the message "nil".
\* QualityCheck.Error puts the reason and the suggestions into the message.
Nil == [msg |-> "nil", reason |-> "", suggestions |-> ""]

QualityCheckError(qc) ==
  IF qc.quality = "good"
    THEN Nil
    ELSE [msg |-> "Quality check failed", reason |-> qc.reason,
          suggestions |-> qc.suggestions]

\* Line counts of the texts of a verdict. The reason "r2" is a text of more
\* than tailLines lines (a JSON string holds line breaks as escapes).
Lines(text) == IF text = "r2" THEN tailLines + 1 ELSE 1

\* Line count of err.Error(): the message of QualityCheck.Error is one
\* line in which the reason and the suggestions are put; every other
\* message is one line.
ErrorLines(e) ==
  IF e.msg = "Quality check failed"
    THEN Lines(e.reason) + Lines(e.suggestions) - 1
    ELSE 1

\* ------------------------------------------------------------------ prompt
\* prompt is a string built by concatenation. It is kept as its length in
\* segments and its last PromptWindow segments. A segment:
\*   k: "template" | "fence" | "gptOutput" | "didntWork" | "diag" | "fix" |
\*      "worked" | "docs"
\*   a: the stage or code type it belongs to, or the error message
\*   n: the line count of a diagnostic
\*   r, s: the reason and suggestions of a quality error message
\*   o: the generated text
Seg(k, a) == [k |-> k, a |-> a, n |-> 0, r |-> "", s |-> "", o |-> << >>]
SegOut(o) == [k |-> "gptOutput", a |-> "", n |-> 0, r |-> "", s |-> "", o |-> o]
SegDiag(a, n, r, s) ==
  [k |-> "diag", a |-> a, n |-> n, r |-> r, s |-> s, o |-> << >>]

LastN(s, n) == IF Len(s) <= n THEN s ELSE SubSeq(s, Len(s) - n + 1, Len(s))

EmptyPrompt == [len |-> 0, tail |-> << >>]

\* prompt += segs
PromptAppend(p, segs) ==
  [len |-> p.len + Len(segs), tail |-> LastN(p.tail \o segs, PromptWindow)]

\* prompt = segs
PromptSet(segs) ==
  [len |-> Len(segs), tail |-> LastN(segs, PromptWindow)]

\* ------------------------------------------------------------- environment
\* What the collaborators may answer in a run: the oracle (outs, gptFails,
\* verdicts, and unparsed: how many answers that are not JSON it gives to
\* the quality prompt before another answer), the file system and git (ioFails), the build command
\* (builds: the outputs of a failing build), the database (dbFails), the
\* parser of the generated .pb.go files (parseFails), go doc (docs) and
\* docker run / docker inspect (dockerFails); the names of the requests
\* (names) and whether the table refuses a second row of the same name
\* (uniqueNames: the schema is not part of the sources).
FullEnv ==
  [ outs |-> { Blank, << "a", " " >> },
    gptFails |-> { "err", "panic" },
    unparsed |-> { 0, 1, gateMaxErrs },
    verdicts |-> Verdicts,
    ioFails |-> { "read", "write", "chmod", "git add", "git commit" },
    builds |-> BuildOutputs,
    dbFails |-> { TRUE },
    parseFails |-> { TRUE },
    docs |-> BOOLEAN,
    dockerFails |-> { "run", "inspect" },
    names |-> { << "A", " ", "b" >> },
    uniqueNames |-> { FALSE } ]

\* The same collaborators without failures of their own: two distinct
\* programs from the oracle, the gate accepts, the build succeeds.
CalmEnv ==
  [ outs |-> { << "a", " " >>, << " ", "b" >> },
    gptFails |-> { },
    unparsed |-> { 0 },
    verdicts |-> { v \in Verdicts : v.quality = "good" },
    ioFails |-> { },
    builds |-> { },
    dbFails |-> { },
    parseFails |-> { },
    docs |-> { FALSE },
    dockerFails |-> { "run" },
    names |-> { << "A", " ", "b" >> },
    uniqueNames |-> { FALSE } ]

\* Several tasks at a time: the oracle gives one program, the gate accepts
\* it and the builds succeed; what can fail is what the code answers with
\* logrus.Fatal or a panic. Two of the names give the same directory, and
\* the table refuses a second row of a name.
SharedEnv ==
  [ outs |-> { << "a", " " >> },
    gptFails |-> { "panic" },
    unparsed |-> { 0 },
    verdicts |-> { v \in Verdicts : v.quality = "good" },
    ioFails |-> { },
    builds |-> { },
    dbFails |-> { },
    parseFails |-> { TRUE },
    docs |-> { FALSE },
    dockerFails |-> { "inspect" },
    names |-> { << "A", " ", "b" >>, << "a", "_", "b" >>, << "c", "/" >> },
    uniqueNames |-> { TRUE } ]

TaskPair == { t \in Tasks : t <= 2 }

\* Two tasks in directories of their own, seen at the start and at the
\* exit of the build command. hangs: the command may never exit.
BuildEnv ==
  [ outs |-> { << "a", " " >> },
    gptFails |-> { "err" },
    unparsed |-> { 0 },
    verdicts |-> { v \in Verdicts : v.quality = "good" },
    ioFails |-> { },
    builds |-> { },
    dbFails |-> { },
    parseFails |-> { },
    docs |-> { FALSE },
    dockerFails |-> { "run" },
    names |-> { << "A", " ", "b" >>, << "c", "/" >> },
    uniqueNames |-> { TRUE },
    hangs |-> { TRUE } ]

\* ------------------------------------------------------------------- state
VARIABLES
  proc,       \* "up" | "down": the server process
  crashes,    \* restarts of the process so far
  seedlings,  \* the seedlings table: id -> step, or Absent
  names,      \* the seedlings table: id -> name, NoName without a row
  written,    \* id -> the step values stored by UPDATE, in order
  dirs,       \* the directories that exist under repos/default
  files,      \* directory -> stage index -> content at the artifact path
  head,       \* directory -> stage index -> content in the last commit
  worker,     \* id -> the locals of the task's gptThread goroutine
  obs,        \* id -> observations of the goroutine's calls
  started,    \* id -> goroutines started for the task by this process
  call        \* a call of cleanFilePath on its own: argument and result

vars ==
  << proc, crashes, seedlings, names, written, dirs, files, head, worker,
     obs, started, call >>

NoCall == [file |-> << >>, cleanedPath |-> << >>, done |-> FALSE]

Stages == 0..(Len(steps) - 2)

Placeholder == << "p" >>

\* initGoRepo: the files written and committed at creation; the example
\* client call does not exist yet.
InitialFiles ==
  [ i \in Stages |->
      IF StepAt(i) = SeedlingStepExampleClientCall
        THEN << >> ELSE Placeholder ]

NoFiles == [i \in Stages |-> << >>]

\* gptThread: the locals before the loop, and name, the Name of its
\* argument; pc "none" is no goroutine.
NoWorker ==
  [ pc |-> "none", exit |-> "", name |-> NoName, step |-> 0, errs |-> 0,
    prompt |-> EmptyPrompt, errMode |-> FALSE, dumpedModDocs |-> FALSE,
    gptOutput |-> << >> ]

NewWorker == [NoWorker EXCEPT !.pc = "top"]

\* go gptThread(seedling): the goroutine holds its copy of the row.
gptThread(seedlingName) == [NewWorker EXCEPT !.name = seedlingName]

\* Observations of the stage last entered (they start again at the first
\* entry of a stage): calls of the Quality Gate, runs of the build command,
\* "bad" verdicts, unparseable answers. Exact up to CountCap, then Overflow.
ZeroStage == [gate |-> 0, verify |-> 0, rejects |-> 0, unparsed |-> 0]
Overflow ==
  [ gate |-> CountCap + 1, verify |-> CountCap + 1,
    rejects |-> CountCap + 1, unparsed |-> CountCap + 1 ]

StageAdd(st, g, v, r, u) ==
  LET n == [ gate |-> st.gate + g, verify |-> st.verify + v,
             rejects |-> st.rejects + r, unparsed |-> st.unparsed + u ]
  IN IF st = Overflow \/ n.gate > CountCap \/ n.verify > CountCap
       THEN Overflow ELSE n

\* The last call of runSeedling: its error message, the stage and the
\* error counter before it, and what it did.
NoAttempt ==
  [ msg |-> "", step |-> 0, errs |-> 0, gate |-> 0, unparsed |-> 0,
    verdict |-> "",
    reason |-> "", suggestions |-> "", candidate |-> << >>,
    wrote |-> FALSE, verified |-> FALSE, committed |-> FALSE ]

\* genCalls: calls of gpt with the generation prompt; gptErr: one of them
\* returned an error; updates: UPDATEs of step that succeeded; errs0: errs
\* at the first entry of the stage last entered; launches: docker run
\* commands.
\* parses: entries of the stage last entered that ran
\* getStructAndInterfaceDefinitionsFromFile (exact up to CountCap).
\* tmpl: for each stage, how many times its instruction template was put
\* in the prompt (exact up to CountCap).
NoObs ==
  [ genCalls |-> 0, gptErr |-> FALSE, updates |-> 0, errs0 |-> 0,
    launches |-> 0, parses |-> 0, st |-> ZeroStage, last |-> NoAttempt,
    tmpl |-> [i \in 1..(Len(steps) - 1) |-> 0] ]

Init ==
  /\ proc = "up"
  /\ crashes = 0
  /\ seedlings = [t \in Tasks |-> Absent]
  /\ names = [t \in Tasks |-> NoName]
  /\ written = [t \in Tasks |-> << >>]
  /\ dirs = { }
  /\ files = [d \in Dirs |-> NoFiles]
  /\ head = [d \in Dirs |-> NoFiles]
  /\ worker = [t \in Tasks |-> NoWorker]
  /\ obs = [t \in Tasks |-> NoObs]
  /\ started = [t \in Tasks |-> 0]
  /\ call = NoCall

AllGone == [t \in Tasks |-> NoWorker]
NoneStarted == [t \in Tasks |-> 0]

\* ---------------------------------------------------------------- handlers
\* initGoRepo: the files it writes over what is in the directory.
RepoTree(name) ==
  [ files EXCEPT
      ![name] = [i \in Stages |->
                   IF InitialFiles[i] # << >> THEN InitialFiles[i] ELSE @[i]] ]

\* CreateSeedling: the name is cleaned, the row is INSERTed with step
\* SeedlingStepProtobufs, then writeSeedlingToRepo -> initGoRepo, which
\* ends with go gptThread(seedling).
\* how: "ok"; "insert": the INSERT fails; "mkdir": MkdirAll fails; "git":
\* git add or git commit fails in the directory (git commit fails when
\* nothing there differs from the last commit). After "mkdir" and "git" the
\* handler answers 500, the row stays, no goroutine is started. The id of
\* a row is not given to a later row.
CreateSeedling(t, E) ==
  /\ proc = "up"
  /\ seedlings[t] = Absent
  /\ worker[t].pc = "none"
  /\ started[t] = 0
  /\ \E n \in E.names : \E u \in E.uniqueNames :
       LET name == cleanFilePath(n)
           taken == u /\ \E o \in Tasks :
                            seedlings[o] # Absent /\ names[o] = name
           tree == RepoTree(name)
           same == tree[name] = head[name]
           hows == (IF taken \/ same THEN { } ELSE { "ok" })
                   \cup (IF taken THEN { "insert" }
                         ELSE { "insert" : f \in E.dbFails })
                   \cup (IF taken THEN { }
                         ELSE { "mkdir" : f \in E.ioFails })
                   \cup (IF taken THEN { }
                         ELSE IF same THEN { "git" }
                         ELSE { "git" : f \in { "git commit" } \cap E.ioFails })
       IN \E how \in hows :
            /\ seedlings' =
                 IF how = "insert" THEN seedlings
                 ELSE [seedlings EXCEPT ![t] = SeedlingStepProtobufs]
            /\ names' = IF how = "insert" THEN names
                        ELSE [names EXCEPT ![t] = name]
            /\ written' = IF how = "insert" THEN written
                          ELSE [written EXCEPT ![t] = << >>]
            /\ dirs' = IF how \in { "ok", "git" } THEN dirs \cup { name }
                       ELSE dirs
            /\ files' = IF how \in { "ok", "git" } THEN tree ELSE files
            /\ head' = IF how = "ok" THEN [head EXCEPT ![name] = tree[name]]
                       ELSE head
            /\ worker' = IF how = "ok"
                           THEN [worker EXCEPT ![t] = gptThread(name)]
                           ELSE worker
            /\ obs' = IF how = "ok" THEN [obs EXCEPT ![t] = NoObs] ELSE obs
            /\ started' = IF how = "ok" THEN [started EXCEPT ![t] = 1]
                          ELSE started
  /\ UNCHANGED << call, proc, crashes >>

\* git rm -r <name> in repos/default: it fails when a tracked file of the
\* directory has changes that are not committed; else the tracked files
\* are removed, and the directory with them when nothing is left in it.
Modified(name) ==
  \E i \in Stages : head[name][i] # << >> /\ files[name][i] # head[name][i]

Removed(name) ==
  [ files EXCEPT
      ![name] = [i \in Stages |->
                   IF head[name][i] = << >> THEN @[i] ELSE << >>] ]

\* git commit -a: the tracked files of the whole of repos/default.
CommitTracked(tree) ==
  [ d \in Dirs |-> [i \in Stages |->
      IF head[d][i] = << >> THEN << >> ELSE tree[d][i]] ]

\* The ids whose row was deleted while its goroutine had been started.
Deleted == { o \in Tasks : started[o] > 0 /\ seedlings[o] = Absent }

\* DeleteSeedling: SELECT the row, DELETE it, git rm -r its directory and
\* git commit -am. No statement of the handler reaches the goroutine of
\* the row. how: "ok"; "db": the SELECT or the DELETE fails; "git rm";
\* "git commit" (the row is deleted before either).
DeleteSeedling(t, E) ==
  /\ proc = "up"
  /\ seedlings[t] # Absent
  /\ Cardinality(Deleted) < MaxDeletes
  /\ LET name == names[t]
         blocked == name \notin dirs \/ Modified(name) \/ head[name] = NoFiles
         tree == Removed(name)
         hows == (IF blocked THEN { } ELSE { "ok" })
                 \cup { "db" : f \in E.dbFails }
                 \cup (IF blocked THEN { "git rm" }
                       ELSE { "git rm" : f \in { "git rm" } \cap E.ioFails })
                 \cup (IF blocked THEN { }
                       ELSE { "git commit" : f \in { "git commit" } \cap E.ioFails })
     IN \E how \in hows :
          /\ seedlings' = IF how = "db" THEN seedlings
                          ELSE [seedlings EXCEPT ![t] = Absent]
          /\ names' = IF how = "db" THEN names
                      ELSE [names EXCEPT ![t] = NoName]
          /\ files' = IF how \in { "ok", "git commit" } THEN tree ELSE files
          /\ dirs' = IF how \in { "ok", "git commit" } /\ tree[name] = NoFiles
                     THEN dirs \ { name } ELSE dirs
          /\ head' = IF how = "ok" THEN CommitTracked(tree) ELSE head
  /\ UNCHANGED << call, proc, crashes, written, worker, obs, started >>

\* Mutant of RowAfterUpdate: the UPDATE of UpdateSeedling sets step to the
\* first stage too.
RowAfterUpdateStep(t) ==
  IF seedlings[t] # Absent
    THEN [seedlings EXCEPT ![t] = SeedlingStepProtobufs]
    ELSE seedlings

\* UpdateSeedling: UPDATE seedlings SET name, description, modified_at
\* WHERE id; the column step is not in the statement.
RowAfterUpdate(t) == seedlings

\* UpdateSeedling: 400 when the name of the body is empty (NoName); else
\* the UPDATE, which stores the name as it is in the body (cleanFilePath is
\* not called) in the row of the id, if there is one. "db": the UPDATE
\* fails. The goroutine of the row keeps its copy of the row.
UpdateSeedling(t, E) ==
  /\ proc = "up"
  /\ \E name \in Names \cup { NoName } :
       \E how \in { "ok" } \cup { "db" : f \in E.dbFails } :
         LET stored == name # NoName /\ how = "ok" /\ seedlings[t] # Absent
         IN /\ names' = IF stored THEN [names EXCEPT ![t] = name] ELSE names
            /\ seedlings' = IF stored THEN RowAfterUpdate(t) ELSE seedlings
  /\ UNCHANGED << call, proc, crashes, written, dirs, files, head, worker,
                  obs, started >>

\* Mutant of Resumed: the test of the step is left out.
ResumedAll(t) == seedlings[t] # Absent

\* The observations of a goroutine of a new run of the process: what was
\* observed of the calls of docker run is kept.
AtStart(o) == [NoObs EXCEPT !.launches = o.launches]

\* init, at process start: SELECT * FROM seedlings, and go gptThread for
\* every row whose step is not SeedlingStepComplete.
Resumed(t) ==
  seedlings[t] # Absent /\ seedlings[t] # SeedlingStepComplete

init ==
  /\ proc = "down"
  /\ crashes < MaxCrashes
  /\ proc' = "up"
  /\ crashes' = crashes + 1
  /\ worker' = [t \in Tasks |->
                  IF Resumed(t) THEN gptThread(names[t]) ELSE NoWorker]
  /\ obs' = [t \in Tasks |-> IF Resumed(t) THEN AtStart(obs[t]) ELSE obs[t]]
  /\ started' = [t \in Tasks |-> IF Resumed(t) THEN 1 ELSE 0]
  /\ UNCHANGED << call, seedlings, names, written, dirs, files, head >>

\* The process is killed or the machine stops. (The docker run commands
\* that were called stay called: the container is not part of the process.)
Crash ==
  /\ proc = "up"
  /\ crashes < MaxCrashes
  /\ proc' = "down"
  /\ worker' = AllGone
  /\ started' = NoneStarted
  /\ obs' = [t \in Tasks |-> AtStart(obs[t])]
  /\ UNCHANGED << call, crashes, seedlings, names, written, dirs, files, head >>

\* ---------------------------------------------------------------- gptThread
\* Mutant of Complete: after a failure of docker run the loop goes on.
CompleteRetry(t, E) ==
  /\ proc = "up"
  /\ worker[t].pc = "top"
  /\ StepAt(worker[t].step) = SeedlingStepComplete
  /\ \E x \in { "ok" } \cup E.dockerFails :
       /\ proc' = IF x = "inspect" THEN "down" ELSE "up"
       /\ worker' =
            IF x = "inspect" THEN AllGone
            ELSE IF x = "run" THEN worker
            ELSE [worker EXCEPT ![t].pc = "exit", ![t].exit = "complete"]
       /\ started' = IF x = "inspect" THEN NoneStarted ELSE started
  /\ obs' = [obs EXCEPT ![t].launches = @ + 1]
  /\ UNCHANGED << call, crashes, seedlings, names, written, dirs, files, head >>

\* Mutant of Complete: no break after docker inspect, the loop goes on to
\* the generation call with the last entry of steps.
CompleteFallsThrough(t, E) ==
  /\ proc = "up"
  /\ worker[t].pc = "top"
  /\ StepAt(worker[t].step) = SeedlingStepComplete
  /\ \E x \in { "ok" } \cup E.dockerFails :
       /\ proc' = IF x = "inspect" THEN "down" ELSE "up"
       /\ worker' =
            IF x = "inspect" THEN AllGone
            ELSE IF x = "run"
              THEN [worker EXCEPT ![t].pc = "exit", ![t].exit = "docker run"]
              ELSE [worker EXCEPT ![t].pc = "gen"]
       /\ started' = IF x = "inspect" THEN NoneStarted ELSE started
  /\ obs' = [obs EXCEPT ![t].launches = @ + 1]
  /\ UNCHANGED << call, crashes, seedlings, names, written, dirs, files, head >>

\* The terminal branch of the loop: docker run, docker inspect, break.
\* "run": docker run fails, return. "inspect": docker inspect fails,
\* logrus.Fatal ends the process.
Complete(t, E) ==
  /\ proc = "up"
  /\ worker[t].pc = "top"
  /\ StepAt(worker[t].step) = SeedlingStepComplete
  /\ \E x \in { "ok" } \cup E.dockerFails :
       /\ proc' = IF x = "inspect" THEN "down" ELSE "up"
       /\ worker' =
            IF x = "inspect" THEN AllGone
            ELSE [worker EXCEPT ![t].pc = "exit",
                                ![t].exit = IF x = "run" THEN "docker run"
                                            ELSE "complete"]
       /\ started' = IF x = "inspect" THEN NoneStarted ELSE started
  /\ obs' = [obs EXCEPT ![t].launches = @ + 1]
  /\ UNCHANGED << call, crashes, seedlings, names, written, dirs, files, head >>

\* Mutant of PromptOf: the first entry of SeedlingStepDockerfile sets the
\* prompt to the template alone, as SeedlingStepProtobufs does.
PromptOfResets(w, docs) ==
  LET s == StepAt(w.step)
      tmpl == << Seg("template", s) >>
      p1 == IF ~w.errMode
              THEN IF s \in { SeedlingStepProtobufs, SeedlingStepDockerfile }
                     THEN PromptSet(tmpl)
                     ELSE PromptAppend(w.prompt, tmpl)
              ELSE IF s = SeedlingStepServer /\ ~w.dumpedModDocs /\ docs
                     THEN PromptAppend(w.prompt, << Seg("docs", s) >>)
                     ELSE w.prompt
  IN [ w EXCEPT
         !.prompt = PromptAppend(p1, << Seg("fence", codeType(w.step)) >>),
         !.errMode = FALSE,
         !.dumpedModDocs =
           @ \/ (s = SeedlingStepServer /\ w.errMode),
         !.pc = "gen" ]

\* The switch on steps[step]: the prompt of the stage. On the first entry
\* (errMode false) the stage's template is put after the prompt so far (at
\* SeedlingStepProtobufs the prompt is the template alone); on a retry
\* errMode is cleared. Then the opening fence of the code type.
\* docs: on the first retry of SeedlingStepServer, whether go doc gave
\* documentation to append.
PromptOf(w, docs) ==
  LET s == StepAt(w.step)
      tmpl == << Seg("template", s) >>
      p1 == IF ~w.errMode
              THEN IF s = SeedlingStepProtobufs
                     THEN PromptSet(tmpl)
                     ELSE PromptAppend(w.prompt, tmpl)
              ELSE IF s = SeedlingStepServer /\ ~w.dumpedModDocs /\ docs
                     THEN PromptAppend(w.prompt, << Seg("docs", s) >>)
                     ELSE w.prompt
  IN [ w EXCEPT
         !.prompt = PromptAppend(p1, << Seg("fence", codeType(w.step)) >>),
         !.errMode = FALSE,
         !.dumpedModDocs =
           @ \/ (s = SeedlingStepServer /\ w.errMode),
         !.pc = "gen" ]

\* The prompt of a generation call whose stage template was put in at this
\* entry of the stage: the template is right before the opening fence.
Templated(p) ==
  /\ Len(p.tail) >= 2
  /\ p.tail[Len(p.tail) - 1].k = "template"

\* "fatal": getStructAndInterfaceDefinitionsFromFile fails at
\* SeedlingStepServer, logrus.Fatal. "read": server/main.go cannot be read
\* at the first entry of SeedlingStepExampleClientCall, return. Both fail
\* when the directory of the task is gone.
BuildPrompt(t, E) ==
  /\ proc = "up"
  /\ worker[t].pc = "top"
  /\ StepAt(worker[t].step) # SeedlingStepComplete
  /\ LET w == worker[t]
         s == StepAt(w.step)
         gone == w.name \notin dirs
         fatal == IF s = SeedlingStepServer
                    THEN IF gone THEN { "fatal" }
                         ELSE { "fatal" : f \in E.parseFails }
                    ELSE { }
         read == IF s = SeedlingStepExampleClientCall /\ ~w.errMode
                   THEN IF gone THEN { "read" }
                        ELSE { "read" : f \in { "read" } \cap E.ioFails }
                   ELSE { }
         ok == IF gone /\ fatal \cup read # { } THEN { } ELSE { "ok" }
         docs == IF s = SeedlingStepServer /\ w.errMode /\ ~w.dumpedModDocs
                   THEN E.docs ELSE { FALSE }
     IN \E x \in ok \cup fatal \cup read : \E d \in docs :
          /\ x # "ok" => d = FALSE
          /\ proc' = IF x = "fatal" THEN "down" ELSE "up"
          /\ worker' =
               IF x = "fatal" THEN AllGone
               ELSE IF x = "read"
                 THEN [worker EXCEPT ![t].pc = "exit", ![t].exit = "read"]
                 ELSE [worker EXCEPT ![t] = PromptOf(w, d)]
          /\ started' = IF x = "fatal" THEN NoneStarted ELSE started
          /\ obs' =
               LET parsed == IF s = SeedlingStepServer THEN 1 ELSE 0
                   o1 == IF x = "ok" /\ ~w.errMode
                           THEN [obs EXCEPT ![t].errs0 = w.errs,
                                            ![t].st = ZeroStage,
                                            ![t].parses = parsed]
                           ELSE [obs EXCEPT
                                   ![t].parses = Min(@ + parsed, CountCap)]
               IN IF x = "ok" /\ Templated(PromptOf(w, d).prompt)
                    THEN [o1 EXCEPT ![t].tmpl[w.step + 1] =
                                      Min(@ + 1, CountCap)]
                    ELSE o1
  /\ UNCHANGED << call, crashes, seedlings, names, written, dirs, files, head >>

\* gpt: one CreateCompletion call. "err": the call returns an error.
\* "panic": the response has no choices, resp.Choices[0] panics.
GptAnswers(E) == { "ok" } \cup E.gptFails

\* The result of runSeedling: the returned output (its line count, 0 for
\* the empty string) and error, and what the call did; candidate is gptOut
\* after the three trims.
Result(msg, qc, calls, unparsed) ==
  [ msg |-> msg, output |-> 0,
    reason |-> QualityCheckError(qc).reason,
    suggestions |-> QualityCheckError(qc).suggestions,
    verdict |-> qc.quality, gate |-> calls, unparsed |-> unparsed,
    candidate |-> << >>, wrote |-> FALSE, content |-> << >>,
    verified |-> FALSE, committed |-> FALSE ]

\* Mutant of GateRuns: an answer that is not JSON ends the call with the
\* error at once (no continue).
GateRunsNoContinue(i, E) ==
  IF StepAt(i) # SeedlingStepServer
    THEN { [end |-> "pass", qc |-> Unparseable, calls |-> 0, unparsed |-> 0] }
    ELSE { [ end |-> IF k > 0 THEN "max errors exceeded"
                     ELSE IF v.quality # "good" THEN "Quality check failed"
                     ELSE "pass",
             qc |-> IF k > 0 THEN Unparseable ELSE v,
             calls |-> 1, unparsed |-> Min(k, 1) ] :
             k \in E.unparsed, v \in E.verdicts }
         \cup
         { [ end |-> f, qc |-> Unparseable, calls |-> 1, unparsed |-> 0 ] :
             f \in E.gptFails }

\* runSeedling, the loop of the quality check (step == SeedlingStepServer):
\* the ways it ends. end "pass" leaves the loop (or there is no loop).
GateRuns(i, E) ==
  IF StepAt(i) # SeedlingStepServer
    THEN { [end |-> "pass", qc |-> Unparseable, calls |-> 0, unparsed |-> 0] }
    ELSE { [ end |-> IF v.quality # "good" THEN "Quality check failed"
                     ELSE "pass",
             qc |-> v, calls |-> k + 1, unparsed |-> k ] :
             k \in E.unparsed \ { gateMaxErrs }, v \in E.verdicts }
         \cup
         { [ end |-> f, qc |-> Unparseable, calls |-> k + 1, unparsed |-> k ] :
             k \in E.unparsed \ { gateMaxErrs }, f \in E.gptFails }
         \cup
         { [ end |-> "max errors exceeded", qc |-> Unparseable,
             calls |-> gateMaxErrs, unparsed |-> gateMaxErrs ] :
             k \in E.unparsed \cap { gateMaxErrs } }

\* Mutant of AfterGate: the test of len(gptOut) == 0 is left out.
AfterGateNoEmptyCheck(t, gptOut, i, E, g) ==
  LET cleaned == CleanOutput(gptOut, codeType(i))
      r0 == [Result("nil", g.qc, g.calls, g.unparsed) EXCEPT
               !.candidate = cleaned]
      w == [r0 EXCEPT !.wrote = TRUE, !.content = cleaned]
      v == [w EXCEPT !.verified = TRUE]
      d == worker[t].name
      tree == [files EXCEPT ![d][i] = cleaned]
  IN IF d \notin dirs
       THEN { [r0 EXCEPT !.msg = "write"] }
       ELSE { [r0 EXCEPT !.msg = "write"] : f \in { "write" } \cap E.ioFails }
            \cup
            { [w EXCEPT !.msg = "chmod"] :
                f \in IF codeType(i) = "bash"
                        THEN { "chmod" } \cap E.ioFails ELSE { } }
            \cup
            { [v EXCEPT !.msg = "exit status 1", !.output = n] :
                n \in E.builds }
            \cup
            { [v EXCEPT !.msg = "git add"] : f \in { "git add" } \cap E.ioFails }
            \cup
            { [v EXCEPT !.msg = "git commit"] :
                f \in IF tree = head THEN { "nothing to commit" }
                      ELSE { "git commit" } \cap E.ioFails }
            \cup
            { [v EXCEPT !.committed = TRUE] : f \in { x \in { 1 } : tree # head } }

\* Mutant of AfterGate: the error of git commit is not returned.
AfterGateNoCommitError(t, gptOut, i, E, g) ==
  LET cleaned == CleanOutput(gptOut, codeType(i))
      r0 == [Result("nil", g.qc, g.calls, g.unparsed) EXCEPT
               !.candidate = cleaned]
      w == [r0 EXCEPT !.wrote = TRUE, !.content = cleaned]
      v == [w EXCEPT !.verified = TRUE]
      d == worker[t].name
      tree == [files EXCEPT ![d][i] = cleaned]
  IN IF Len(cleaned) = 0
       THEN { [r0 EXCEPT !.msg = "no code to run"] }
     ELSE IF d \notin dirs
       THEN { [r0 EXCEPT !.msg = "write"] }
       ELSE { [r0 EXCEPT !.msg = "write"] : f \in { "write" } \cap E.ioFails }
            \cup
            { [w EXCEPT !.msg = "chmod"] :
                f \in IF codeType(i) = "bash"
                        THEN { "chmod" } \cap E.ioFails ELSE { } }
            \cup
            { [v EXCEPT !.msg = "exit status 1", !.output = n] :
                n \in E.builds }
            \cup
            { [v EXCEPT !.msg = "git add"] : f \in { "git add" } \cap E.ioFails }
            \cup
            { v : f \in IF tree = head THEN { "nothing to commit" }
                        ELSE { "git commit" } \cap E.ioFails }
            \cup
            { [v EXCEPT !.committed = TRUE] : f \in { x \in { 1 } : tree # head } }

\* runSeedling after the quality check: trim, the empty check, WriteFile,
\* Chmod for bash, the build command, git add and git commit in
\* repos/default. WriteFile fails when the directory of the task is gone;
\* git commit fails when there is nothing to commit.
AfterGate(t, gptOut, i, E, g) ==
  LET cleaned == CleanOutput(gptOut, codeType(i))
      r0 == [Result("nil", g.qc, g.calls, g.unparsed) EXCEPT
               !.candidate = cleaned]
      w == [r0 EXCEPT !.wrote = TRUE, !.content = cleaned]
      v == [w EXCEPT !.verified = TRUE]
      d == worker[t].name
      tree == [files EXCEPT ![d][i] = cleaned]
  IN IF Len(cleaned) = 0
       THEN { [r0 EXCEPT !.msg = "no code to run"] }
     ELSE IF d \notin dirs
       THEN { [r0 EXCEPT !.msg = "write"] }
       ELSE { [r0 EXCEPT !.msg = "write"] : f \in { "write" } \cap E.ioFails }
            \cup
            { [w EXCEPT !.msg = "chmod"] :
                f \in IF codeType(i) = "bash"
                        THEN { "chmod" } \cap E.ioFails ELSE { } }
            \cup
            { [v EXCEPT !.msg = "exit status 1", !.output = n] :
                n \in E.builds }
            \cup
            { [v EXCEPT !.msg = "git add"] : f \in { "git add" } \cap E.ioFails }
            \cup
            { [v EXCEPT !.msg = "git commit"] :
                f \in IF tree = head THEN { "nothing to commit" }
                      ELSE { "git commit" } \cap E.ioFails }
            \cup
            { [v EXCEPT !.committed = TRUE] : f \in { x \in { 1 } : tree # head } }

\* Mutant of runSeedling: a verdict other than "good" does not return, the
\* build command runs and the rejection is reported after it.
runSeedlingNoReturn(t, gptOut, i, E) ==
  UNION { IF g.end = "pass"
            THEN AfterGate(t, gptOut, i, E, g)
            ELSE IF g.end = "Quality check failed"
              THEN { [r EXCEPT !.msg = g.end, !.committed = FALSE] :
                       r \in AfterGate(t, gptOut, i, E, g) }
              ELSE { [Result(g.end, g.qc, g.calls, g.unparsed) EXCEPT
                        !.candidate = CleanOutput(gptOut, codeType(i))] } :
          g \in GateRuns(i, E) }

\* runSeedling(ctx, file, codeType, buildCmd, gptOut, step, ...): the set of
\* results the collaborators allow.
runSeedling(t, gptOut, i, E) ==
  UNION { IF g.end = "pass"
            THEN AfterGate(t, gptOut, i, E, g)
            ELSE { [Result(g.end, g.qc, g.calls, g.unparsed) EXCEPT
                      !.candidate = CleanOutput(gptOut, codeType(i))] } :
          g \in GateRuns(i, E) }

\* Mutant of OnError: errs >= maxErrs in place of errs > maxErrs.
OnErrorOffByOne(w, gptOut, r) ==
  LET e == w.errs + 1
      diag == IF r.output = 0
                THEN SegDiag(r.msg, ErrorLines(r), r.reason, r.suggestions)
                ELSE SegDiag("output", Min(r.output, tailLines), "", "")
  IN IF e >= maxErrs
       THEN [w EXCEPT !.errs = e, !.pc = "exit", !.exit = "budget"]
       ELSE [ w EXCEPT
                !.errs = e,
                !.prompt = PromptAppend(@, << SegOut(gptOut),
                                               Seg("didntWork", ""), diag,
                                               Seg("fix", "") >>),
                !.errMode = TRUE,
                !.pc = "top" ]

\* Mutant of OnError: an empty output is not replaced by the error message.
OnErrorNoMessage(w, gptOut, r) ==
  LET e == w.errs + 1
      diag == SegDiag("output", Min(r.output, tailLines), "", "")
  IN IF e > maxErrs
       THEN [w EXCEPT !.errs = e, !.pc = "exit", !.exit = "budget"]
       ELSE [ w EXCEPT
                !.errs = e,
                !.prompt = PromptAppend(@, << SegOut(gptOut),
                                               Seg("didntWork", ""), diag,
                                               Seg("fix", "") >>),
                !.errMode = TRUE,
                !.pc = "top" ]

\* Mutant of OnError: errMode is not set.
OnErrorNoErrMode(w, gptOut, r) ==
  LET e == w.errs + 1
      diag == IF r.output = 0
                THEN SegDiag(r.msg, ErrorLines(r), r.reason, r.suggestions)
                ELSE SegDiag("output", Min(r.output, tailLines), "", "")
  IN IF e > maxErrs
       THEN [w EXCEPT !.errs = e, !.pc = "exit", !.exit = "budget"]
       ELSE [ w EXCEPT
                !.errs = e,
                !.prompt = PromptAppend(@, << SegOut(gptOut),
                                               Seg("didntWork", ""), diag,
                                               Seg("fix", "") >>),
                !.pc = "top" ]

\* gptThread, runSeedling returned an error: errs++, return when the budget
\* is exceeded; else the last tailLines lines of the output (the error
\* message if the output is empty) are put after the prompt with the
\* generated text, and errMode is set.
OnError(w, gptOut, r) ==
  LET e == w.errs + 1
      diag == IF r.output = 0
                THEN SegDiag(r.msg, ErrorLines(r), r.reason, r.suggestions)
                ELSE SegDiag("output", Min(r.output, tailLines), "", "")
  IN IF e > maxErrs
       THEN [w EXCEPT !.errs = e, !.pc = "exit", !.exit = "budget"]
       ELSE [ w EXCEPT
                !.errs = e,
                !.prompt = PromptAppend(@, << SegOut(gptOut),
                                               Seg("didntWork", ""), diag,
                                               Seg("fix", "") >>),
                !.errMode = TRUE,
                !.pc = "top" ]

\* Mutant of OnGptError: the error is counted and the stage retried.
OnGptErrorRetry(w) ==
  [w EXCEPT !.errs = @ + 1, !.errMode = TRUE, !.pc = "top"]

\* gptThread, gpt returned an error: log and return.
OnGptError(w) == [w EXCEPT !.pc = "exit", !.exit = "gpt"]

\* gptThread, runSeedling returned nil: the goroutine is before the UPDATE.
OnSuccess(w, gptOut) == [w EXCEPT !.gptOutput = gptOut, !.pc = "ret"]

\* Mutant of RowAfterAttempt: the abort on the budget puts the row back to
\* the first stage.
RowAfterAttemptReset(t, w2) ==
  IF w2.exit = "budget" /\ seedlings[t] # Absent
    THEN [seedlings EXCEPT ![t] = SeedlingStepProtobufs]
    ELSE seedlings

\* gptThread, the branches on the errors of gpt and of runSeedling: none
\* has a statement on db, the table is as it was (w2: the locals after the
\* branch).
RowAfterAttempt(t, w2) == seedlings

\* What the observer records of a call of runSeedling.
Observe(o, w, r) ==
  [ o EXCEPT
      !.st = StageAdd(@, r.gate, IF r.verified THEN 1 ELSE 0,
                      IF r.msg = "Quality check failed" THEN 1 ELSE 0,
                      r.unparsed),
      !.last = [ msg |-> r.msg, step |-> w.step, errs |-> w.errs,
                 gate |-> r.gate,
                 unparsed |-> r.unparsed, verdict |-> r.verdict,
                 reason |-> r.reason, suggestions |-> r.suggestions,
                 candidate |-> r.candidate, wrote |-> r.wrote,
                 verified |-> r.verified, committed |-> r.committed ] ]

\* One attempt: gpt(ctx, c, prompt), then runSeedling and the branch on its
\* error. A gpt error returns; a panic ends the process.
\* cut "none": the attempt as one step. The attempt seen at the build
\* command is cut "before" (the attempts that end before
\* buildCmd.CombinedOutput()), StartBuild, and cut "end" (what follows the
\* exit of the command, from pc "build").
AttemptAt(t, E, cut) ==
  /\ proc = "up"
  /\ worker[t].pc = IF cut = "end" THEN "build" ELSE "gen"
  /\ LET w == [worker[t] EXCEPT !.pc = "gen", !.gptOutput = << >>]
         called == IF cut = "end" THEN obs[t]
                   ELSE [obs[t] EXCEPT !.genCalls = @ + 1]
         answers == IF cut = "end" THEN { "ok" } ELSE GptAnswers(E)
         outs == IF cut = "end" THEN { worker[t].gptOutput } ELSE E.outs
     IN \E a \in answers :
          \E gptOutput \in IF a = "ok" THEN outs ELSE { << >> } :
            \E r \in IF a = "ok" THEN runSeedling(t, gptOutput, w.step, E)
                     ELSE { Result(a, Unparseable, 0, 0) } :
              LET dies == r.msg = "panic"
                  tree == IF r.wrote
                            THEN [files EXCEPT ![w.name][w.step] = r.content]
                            ELSE files
              IN /\ cut = "before" => ~r.verified
                 /\ cut = "end" => r.verified
                 /\ proc' = IF dies THEN "down" ELSE "up"
                 /\ started' = IF dies THEN NoneStarted ELSE started
                 /\ worker' =
                      IF dies THEN AllGone
                      ELSE IF a = "err"
                        THEN [worker EXCEPT ![t] = OnGptError(w)]
                      ELSE IF r.msg = "nil"
                        THEN [worker EXCEPT ![t] = OnSuccess(w, gptOutput)]
                        ELSE [worker EXCEPT ![t] = OnError(w, gptOutput, r)]
                 /\ obs' = [obs EXCEPT ![t] =
                              IF a = "ok" THEN Observe(called, w, r)
                              ELSE [called EXCEPT !.gptErr = (a = "err")]]
                 /\ files' = tree
                 /\ head' = IF r.committed THEN tree ELSE head
                 /\ seedlings' = RowAfterAttempt(t, worker'[t])
  /\ UNCHANGED << call, crashes, names, written, dirs >>

Attempt(t, E) ==
  /\ worker[t].pc = "gen"
  /\ AttemptAt(t, E, "none")

\* The attempts in which runSeedling returns before the build command.
\* (In the runs seen at the build command a worker starts no attempt
\* after more than BuildRetries failures.)
BeforeBuild(t, E) ==
  /\ worker[t].errs <= BuildRetries
  /\ AttemptAt(t, E, "before")

\* gpt returned gptOutput, runSeedling wrote it to the artifact path and
\* calls buildCmd.CombinedOutput(): the command runs (pc "build"), or runs
\* and never exits (pc "hung"). No lock is taken before it and it has no
\* deadline (exec.Command, context.Background()).
StartBuild(t, E) ==
  /\ proc = "up"
  /\ worker[t].pc = "gen"
  /\ worker[t].errs <= BuildRetries
  /\ LET w == worker[t]
     IN \E gptOutput \in E.outs :
          \E r \in runSeedling(t, gptOutput, w.step, E) :
            \E pc \in { "build" } \cup { "hung" : h \in E.hangs } :
              /\ r.verified
              /\ files' = [files EXCEPT ![w.name][w.step] = r.content]
              /\ worker' = [worker EXCEPT ![t].pc = pc,
                                          ![t].gptOutput = gptOutput]
  /\ obs' = [obs EXCEPT ![t].genCalls = @ + 1]
  /\ UNCHANGED << call, proc, crashes, seedlings, names, written, dirs, head,
                  started >>

\* The build command exits: runSeedling goes on to git add and git commit
\* and gptThread branches on the error.
EndBuild(t, E) ==
  /\ worker[t].pc = "build"
  /\ AttemptAt(t, E, "end")

\* Mutant of Advanced: step += 1 is left out.
AdvancedNoStep(w) ==
  [ w EXCEPT
      !.prompt = PromptAppend(@, << SegOut(w.gptOutput), Seg("worked", "") >>),
      !.gptOutput = << >>,
      !.pc = "top" ]

\* Mutant of Advanced: errs = 0 when the stage advances.
AdvancedResetsErrs(w) ==
  [ w EXCEPT
      !.prompt = PromptAppend(@, << SegOut(w.gptOutput), Seg("worked", "") >>),
      !.gptOutput = << >>,
      !.step = @ + 1,
      !.errs = 0,
      !.pc = "top" ]

\* gptThread after a nil error: UPDATE seedlings SET step = steps[step+1];
\* on an error of the UPDATE return, else the generated text and the
\* success marker are put after the prompt and step += 1.
Advanced(w) ==
  [ w EXCEPT
      !.prompt = PromptAppend(@, << SegOut(w.gptOutput), Seg("worked", "") >>),
      !.gptOutput = << >>,
      !.step = @ + 1,
      !.pc = "top" ]

\* Mutant of AfterUpdate: the error of the UPDATE is logged, not returned.
AfterUpdateIgnoreError(w, x) == Advanced(w)

\* The branch on the error of the UPDATE.
AfterUpdate(w, x) ==
  IF x = "ok" THEN Advanced(w) ELSE [w EXCEPT !.pc = "exit", !.exit = "db"]

Advance(t, E) ==
  /\ proc = "up"
  /\ worker[t].pc = "ret"
  /\ \E x \in { "ok" } \cup { "db" : f \in E.dbFails } :
       LET w == worker[t]
           row == x = "ok" /\ seedlings[t] # Absent
       IN /\ seedlings' = IF row
                            THEN [seedlings EXCEPT ![t] = StepAt(w.step + 1)]
                            ELSE seedlings
          /\ written' = IF row
                          THEN [written EXCEPT
                                  ![t] = Append(@, StepAt(w.step + 1))]
                          ELSE written
          /\ worker' = [worker EXCEPT ![t] = AfterUpdate(w, x)]
          /\ obs' = IF x = "ok" THEN [obs EXCEPT ![t].updates = @ + 1]
                      ELSE obs
  /\ UNCHANGED << call, proc, crashes, names, dirs, files, head, started >>

\* ------------------------------------------- gptThread of garden/main.go
\* The variant of garden/main.go: three stages, no quality check, no
\* errMode; init, cleanFilePath, initGoRepo and the handlers are the same.
gardenMaxErrs == 5
gardenTailLines == 25

gardenSteps ==
  << SeedlingStepProtobufs, SeedlingStepServer, SeedlingStepDockerfile,
     SeedlingStepComplete >>

gardenStepAt(i) == gardenSteps[i + 1]

\* startFails: the build command cannot be started (no output).
GardenEnv ==
  [ outs |-> { << "a", " " >>, << " ", "b" >> },
    gptFails |-> { "err", "panic" },
    ioFails |-> { "write", "git add", "git commit" },
    builds |-> BuildOutputs,
    startFails |-> { TRUE },
    dbFails |-> { TRUE },
    parseFails |-> { TRUE },
    names |-> { << "A", " ", "b" >> },
    uniqueNames |-> { FALSE } ]

\* The loop head at SeedlingStepComplete: break, the function ends.
GardenComplete(t) ==
  /\ proc = "up"
  /\ worker[t].pc = "top"
  /\ gardenStepAt(worker[t].step) = SeedlingStepComplete
  /\ worker' = [worker EXCEPT ![t].pc = "exit", ![t].exit = "complete"]
  /\ UNCHANGED << call, proc, crashes, seedlings, names, written, dirs,
                  files, head, obs, started >>

\* The switch on steps[step]. SeedlingStepProtobufs: prompt = the template
\* (with the opening fence). SeedlingStepServer and SeedlingStepDockerfile:
\* prompt = the prompt so far, then the template.
gardenPromptOf(w) ==
  LET s == gardenStepAt(w.step)
      tmpl == << Seg("template", s), Seg("fence", codeType(w.step)) >>
  IN [ w EXCEPT
         !.prompt = IF s = SeedlingStepProtobufs
                      THEN PromptSet(tmpl)
                      ELSE PromptAppend(w.prompt, tmpl),
         !.pc = "gen" ]

\* "fatal": at SeedlingStepServer one of the three readers of the
\* generated files fails, logrus.Fatal.
GardenBuildPrompt(t, E) ==
  /\ proc = "up"
  /\ worker[t].pc = "top"
  /\ gardenStepAt(worker[t].step) # SeedlingStepComplete
  /\ LET w == worker[t]
         gone == w.name \notin dirs
         fatal == IF gardenStepAt(w.step) = SeedlingStepServer
                    THEN IF gone THEN { "fatal" }
                         ELSE { "fatal" : f \in E.parseFails }
                    ELSE { }
         ok == IF gone /\ fatal # { } THEN { } ELSE { "ok" }
     IN \E x \in ok \cup fatal :
          /\ proc' = IF x = "fatal" THEN "down" ELSE "up"
          /\ worker' = IF x = "fatal" THEN AllGone
                       ELSE [worker EXCEPT ![t] = gardenPromptOf(w)]
          /\ started' = IF x = "fatal" THEN NoneStarted ELSE started
  /\ UNCHANGED << call, crashes, seedlings, names, written, dirs, files,
                  head, obs >>

\* runSeedling(file, codeType, buildCmd, gptOut): the three trims,
\* WriteFile, the build command, git add and git commit. Only a build
\* command that ran and failed returns an output (its line count, 0 for no
\* output); every other error comes with the output "".
gardenRunSeedling(t, gptOut, i, E) ==
  LET cleaned == CleanOutput(gptOut, codeType(i))
      r0 == [Result("nil", Unparseable, 0, 0) EXCEPT !.candidate = cleaned]
      w == [r0 EXCEPT !.wrote = TRUE, !.content = cleaned]
      v == [w EXCEPT !.verified = TRUE]
      d == worker[t].name
      tree == [files EXCEPT ![d][i] = cleaned]
  IN IF d \notin dirs
       THEN { [r0 EXCEPT !.msg = "write"] }
       ELSE { [r0 EXCEPT !.msg = "write"] : f \in { "write" } \cap E.ioFails }
            \cup
            { [v EXCEPT !.msg = "exit status 1", !.output = n] :
                n \in E.builds }
            \cup
            { [v EXCEPT !.msg = "exec"] : f \in E.startFails }
            \cup
            { [v EXCEPT !.msg = "git add"] : f \in { "git add" } \cap E.ioFails }
            \cup
            { [v EXCEPT !.msg = "git commit"] :
                f \in IF tree = head THEN { "nothing to commit" }
                      ELSE { "git commit" } \cap E.ioFails }
            \cup
            { [v EXCEPT !.committed = TRUE] : f \in { x \in { 1 } : tree # head } }
\* gptThread, runSeedling returned an error: with the output "" the
\* function returns; else errs++, return when the budget is exceeded, else
\* the generated text and the last gardenTailLines lines of the output are
\* put after the prompt.
gardenOnError(w, gptOut, r) ==
  LET e == w.errs + 1
  IN IF r.output = 0
       THEN [w EXCEPT !.pc = "exit", !.exit = "no output"]
     ELSE IF e > gardenMaxErrs
       THEN [w EXCEPT !.errs = e, !.pc = "exit", !.exit = "budget"]
       ELSE [ w EXCEPT
                !.errs = e,
                !.prompt =
                  PromptAppend(@, << Seg("didntWork", ""), SegOut(gptOut),
                                     SegDiag("output",
                                             Min(r.output, gardenTailLines),
                                             "", ""),
                                     Seg("fix", "") >>),
                !.pc = "top" ]

\* One attempt: gpt(ctx, c, prompt), runSeedling and the branch on its
\* error.
GardenAttempt(t, E) ==
  /\ proc = "up"
  /\ worker[t].pc = "gen"
  /\ LET w == worker[t]
         called == [obs[t] EXCEPT !.genCalls = @ + 1]
     IN \E a \in GptAnswers(E) :
          \E gptOutput \in IF a = "ok" THEN E.outs ELSE { << >> } :
            \E r \in IF a = "ok"
                      THEN gardenRunSeedling(t, gptOutput, w.step, E)
                      ELSE { Result(a, Unparseable, 0, 0) } :
              LET dies == r.msg = "panic"
                  tree == IF r.wrote
                            THEN [files EXCEPT ![w.name][w.step] = r.content]
                            ELSE files
              IN /\ proc' = IF dies THEN "down" ELSE "up"
                 /\ started' = IF dies THEN NoneStarted ELSE started
                 /\ worker' =
                      IF dies THEN AllGone
                      ELSE IF a = "err"
                        THEN [worker EXCEPT ![t] = OnGptError(w)]
                      ELSE IF r.msg = "nil"
                        THEN [worker EXCEPT ![t] = OnSuccess(w, gptOutput)]
                        ELSE [worker EXCEPT
                                ![t] = gardenOnError(w, gptOutput, r)]
                 /\ obs' = [obs EXCEPT ![t] =
                              IF a = "ok"
                                THEN [called EXCEPT
                                        !.last = Observe(called, w, r).last]
                                ELSE [called EXCEPT !.gptErr = (a = "err")]]
                 /\ files' = tree
                 /\ head' = IF r.committed THEN tree ELSE head
  /\ UNCHANGED << call, crashes, seedlings, names, written, dirs >>

\* Mutant of gardenLast: the test is true one stage early.
gardenLastEarly(w) == w.step + 2 = Len(gardenSteps)

\* step+1 == len(steps)
gardenLast(w) == w.step + 1 = Len(gardenSteps)

\* gptThread after a nil error: return when step+1 == len(steps); else the
\* UPDATE of step to steps[step+1] (return on its error), the generated
\* text and the success marker are put after the prompt, step += 1.
GardenAdvance(t, E) ==
  /\ proc = "up"
  /\ worker[t].pc = "ret"
  /\ \E x \in { "ok" } \cup { "db" : f \in E.dbFails } :
       LET w == worker[t]
           last == gardenLast(w)
           row == ~last /\ x = "ok" /\ seedlings[t] # Absent
       IN /\ last => x = "ok"
          /\ seedlings' =
               IF row THEN [seedlings EXCEPT ![t] = gardenStepAt(w.step + 1)]
               ELSE seedlings
          /\ written' =
               IF row THEN [written EXCEPT
                              ![t] = Append(@, gardenStepAt(w.step + 1))]
               ELSE written
          /\ worker' =
               IF last
                 THEN [worker EXCEPT ![t].pc = "exit",
                                     ![t].exit = "run complete"]
                 ELSE [worker EXCEPT ![t] = AfterUpdate(w, x)]
          /\ obs' = IF ~last /\ x = "ok"
                      THEN [obs EXCEPT ![t].updates = @ + 1] ELSE obs
  /\ UNCHANGED << call, proc, crashes, names, dirs, files, head, started >>

\* ----------------------------------------------------------- specifications
\* One task, created once, in one run of the process, with every failure
\* of the collaborators.
Next ==
  \E t \in SingleTask :
    \/ CreateSeedling(t, FullEnv)
    \/ BuildPrompt(t, FullEnv)
    \/ Attempt(t, FullEnv)
    \/ Advance(t, FullEnv)
    \/ Complete(t, FullEnv)

Spec == Init /\ [][Next]_vars

\* One task over restarts of the process: the process may stop at any
\* point and init resumes the unfinished task; the collaborators do not
\* fail otherwise.
NextRestart ==
  \/ Crash
  \/ init
  \/ \E t \in SingleTask :
       \/ CreateSeedling(t, CalmEnv)
       \/ BuildPrompt(t, CalmEnv)
       \/ Attempt(t, CalmEnv)
       \/ Advance(t, CalmEnv)
       \/ Complete(t, CalmEnv)

SpecRestart == Init /\ [][NextRestart]_vars

\* Two tasks of the table side by side in one run of the process, created
\* and deleted by the requests of the clients.
NextTasks ==
  \E t \in TaskPair :
    \/ CreateSeedling(t, SharedEnv)
    \/ DeleteSeedling(t, SharedEnv)
    \/ BuildPrompt(t, SharedEnv)
    \/ Attempt(t, SharedEnv)
    \/ Advance(t, SharedEnv)
    \/ Complete(t, SharedEnv)

SpecTasks == Init /\ [][NextTasks]_vars

\* Two tasks side by side, their attempts seen at the start and at the
\* exit of the build command.
NextBuild ==
  \E t \in TaskPair :
    \/ CreateSeedling(t, BuildEnv)
    \/ BuildPrompt(t, BuildEnv)
    \/ BeforeBuild(t, BuildEnv)
    \/ StartBuild(t, BuildEnv)
    \/ EndBuild(t, BuildEnv)
    \/ Advance(t, BuildEnv)
    \/ Complete(t, BuildEnv)

SpecBuild == Init /\ [][NextBuild]_vars

\* The same with the scheduling of the goroutines: a goroutine that can
\* take a step takes one.
SpecBuildFair ==
  SpecBuild /\ \A t \in TaskPair :
    WF_vars(\/ BuildPrompt(t, BuildEnv)
            \/ BeforeBuild(t, BuildEnv)
            \/ StartBuild(t, BuildEnv)
            \/ EndBuild(t, BuildEnv)
            \/ Advance(t, BuildEnv)
            \/ Complete(t, BuildEnv))

\* One task and the requests on its row: create, update, delete.
NextUpdate ==
  \E t \in SingleTask :
    \/ CreateSeedling(t, CalmEnv)
    \/ UpdateSeedling(t, CalmEnv)
    \/ DeleteSeedling(t, CalmEnv)
    \/ BuildPrompt(t, CalmEnv)
    \/ Attempt(t, CalmEnv)
    \/ Advance(t, CalmEnv)
    \/ Complete(t, CalmEnv)

SpecUpdate == Init /\ [][NextUpdate]_vars

\* One task under the gptThread of garden/main.go, with every failure of
\* the collaborators.
NextGarden ==
  \E t \in SingleTask :
    \/ CreateSeedling(t, GardenEnv)
    \/ GardenBuildPrompt(t, GardenEnv)
    \/ GardenAttempt(t, GardenEnv)
    \/ GardenAdvance(t, GardenEnv)
    \/ GardenComplete(t)

SpecGarden == Init /\ [][NextGarden]_vars

\* cleanFilePath on its own, over every string of Inputs.
InitClean ==
  /\ proc = "up"
  /\ crashes = 0
  /\ seedlings = [t \in Tasks |-> Absent]
  /\ names = [t \in Tasks |-> NoName]
  /\ written = [t \in Tasks |-> << >>]
  /\ dirs = { }
  /\ files = [d \in Dirs |-> NoFiles]
  /\ head = [d \in Dirs |-> NoFiles]
  /\ worker = AllGone
  /\ obs = [t \in Tasks |-> NoObs]
  /\ started = NoneStarted
  /\ call \in { [NoCall EXCEPT !.file = f] : f \in Inputs }

CallCleanFilePath ==
  /\ ~call.done
  /\ call' = [call EXCEPT !.cleanedPath = cleanFilePath(call.file),
                          !.done = TRUE]
  /\ UNCHANGED << proc, crashes, seedlings, names, written, dirs, files,
                  head, worker, obs, started >>

SpecClean == InitClean /\ [][CallCleanFilePath]_vars

\* Process start over every content of the seedlings table.
InitBoot ==
  /\ proc = "down"
  /\ crashes = 0
  /\ seedlings \in [Tasks -> { Absent } \cup { StepAt(i) : i \in 0..(Len(steps) - 1) }]
  /\ names \in [Tasks -> Dirs \cup { NoName }]
  /\ \A t \in Tasks : names[t] = NoName <=> seedlings[t] = Absent
  /\ written = [t \in Tasks |-> << >>]
  /\ dirs = { names[t] : t \in Tasks } \ { NoName }
  /\ files = [d \in Dirs |->
                IF d \notin dirs THEN NoFiles
                ELSE [i \in Stages |->
                        IF \E t \in Tasks :
                             names[t] = d /\ i < StepIndex(seedlings[t])
                          THEN << "a" >>
                          ELSE InitialFiles[i]]]
  /\ head = files
  /\ worker = AllGone
  /\ obs = [t \in Tasks |-> NoObs]
  /\ started = NoneStarted
  /\ call = NoCall

SpecBoot == InitBoot /\ [][init]_vars

\* ------------------------------------------------------------------ claims
Running(t) == worker[t].pc # "none"
StageFails(t) == worker[t].errs - obs[t].errs0
Rejected(t) == obs[t].last.msg = "Quality check failed"
ServerIndex == StepIndex(SeedlingStepServer)

\* A call of runSeedling is made for task t in this step.
Attempted(t) == obs'[t].last # obs[t].last

\* C1: when a worker aborts on the budget without any attempt having
\* succeeded, its error counter is maxErrs + 1 = 16, it has made 16
\* generation calls, and no UPDATE of step was made for the task.
C1_AllFail ==
  \A t \in Tasks :
    (worker[t].exit = "budget" /\ worker[t].step = 0) =>
      /\ worker[t].errs = maxErrs + 1
      /\ obs[t].genCalls = maxErrs + 1
      /\ obs[t].updates = 0
      /\ written[t] = << >>
      /\ seedlings[t] = SeedlingStepProtobufs

C1_Witness ==
  \E t \in Tasks :
    /\ worker[t].exit = "budget"
    /\ worker[t].step = 0
    /\ obs[t].last.msg = "exit status 1"
    /\ obs[t].last.verified

\* C2, as claimed: a stage whose earlier stages each succeeded within the
\* budget, and which has itself seen fewer than maxErrs failed attempts, is
\* not aborted (its Nth attempt, N <= budget, is still made), and every
\* stage passed has exactly one UPDATE.
C2_BudgetPerStage ==
  \A t \in Tasks :
    /\ (obs[t].errs0 < maxErrs /\ StageFails(t) < maxErrs) =>
         worker[t].exit # "budget"
    /\ Running(t) => obs[t].updates = worker[t].step

\* C2, amended: the budget is the task's. A worker aborts on the budget
\* exactly when the failed attempts of all stages together exceed maxErrs;
\* every stage passed has exactly one UPDATE; and after an attempt that
\* succeeded the worker's next step is the UPDATE to the next stage, which
\* advances the stage by one unless the UPDATE fails.
C2_BudgetPerTask ==
  /\ [](\A t \in Tasks :
          /\ worker[t].exit = "budget" <=> worker[t].errs > maxErrs
          /\ Running(t) =>
               /\ obs[t].updates = worker[t].step
               /\ Len(written[t]) = worker[t].step
               /\ \A k \in 1..Len(written[t]) : written[t][k] = StepAt(k))
  /\ [][\A t \in Tasks :
          (worker[t].pc = "ret" /\ worker'[t] # worker[t] /\ proc' = "up") =>
            \/ /\ worker'[t].step = worker[t].step + 1
               /\ worker'[t].pc = "top"
               /\ written'[t] = Append(written[t], StepAt(worker'[t].step))
               /\ seedlings'[t] = StepAt(worker'[t].step)
            \/ /\ worker'[t].exit = "db"
               /\ worker'[t].step = worker[t].step
               /\ written' = written]_vars

\* Every stage was passed, each after failed attempts, within the budget.
C2_Witness ==
  \E t \in Tasks :
    /\ StepAt(worker[t].step) = SeedlingStepComplete
    /\ worker[t].errs = maxErrs
    /\ obs[t].errs0 > 0
    /\ StageFails(t) > 0
    /\ written[t] = Tail(steps)

\* C3, as claimed: the step values stored for a task never go back and
\* never skip: each is the one before it or its successor in steps.
C3_StoredStepsInOrder ==
  \A t \in Tasks :
    \A k \in 1..Len(written[t]) :
      LET before == IF k = 1 THEN 0 ELSE StepIndex(written[t][k - 1])
          now == StepIndex(written[t][k])
      IN now = before \/ now = before + 1

\* C4, as claimed: a worker never works on a stage that precedes the
\* stored step of its task.
C4_ResumesAtStoredStep ==
  \A t \in Tasks :
    (worker[t].pc \in { "gen", "ret" } /\ seedlings[t] # Absent) =>
      worker[t].step >= StepIndex(seedlings[t])

\* C5: whenever the worker is in a stage, the stored step is that stage (the
\* UPDATE of every advance is done before the next generation call is
\* issued); and an UPDATE that fails ends the worker with its stage as it
\* was and no further call.
C5_UpdateBeforeNextCall ==
  /\ [](\A t \in Tasks :
          Running(t) => seedlings[t] = StepAt(worker[t].step))
  /\ [][\A t \in Tasks :
          /\ (worker[t].pc = "ret" /\ worker'[t].exit = "db") =>
               /\ worker'[t].step = worker[t].step
               /\ worker'[t].pc = "exit"
               /\ seedlings' = seedlings
          /\ worker[t].exit = "db" =>
               /\ worker'[t] = worker[t]
               /\ obs'[t] = obs[t]
               /\ files' = files /\ head' = head]_vars

C5_Witness ==
  \E t \in Tasks :
    /\ worker[t].exit = "db"
    /\ worker[t].step = 2
    /\ seedlings[t] = SeedlingStepDockerfile

\* C6: after init has run, exactly one worker is started for every row
\* whose step is not SeedlingStepComplete, and none for any other id.
C6_ResumedOnce ==
  \A t \in Tasks :
    proc = "up" =>
      IF seedlings[t] # Absent /\ seedlings[t] # SeedlingStepComplete
        THEN started[t] = 1 /\ worker[t].pc = "top"
        ELSE started[t] = 0 /\ worker[t].pc = "none"

C6_Witness ==
  /\ proc = "up"
  /\ \E t, u \in Tasks :
       /\ seedlings[t] = SeedlingStepComplete /\ started[t] = 0
       /\ seedlings[u] = SeedlingStepDockerfile /\ started[u] = 1

\* C7: a generation call that returns an error ends the worker at once: the
\* error counter, the files, the commits, the stored step and the record of
\* the last runSeedling call are as before the call, and afterwards the
\* worker makes no call of any kind.
C7_GptErrorStops ==
  [][\A t \in Tasks :
       /\ (~obs[t].gptErr /\ obs'[t].gptErr) =>
            /\ worker'[t].pc = "exit"
            /\ worker'[t].errs = worker[t].errs
            /\ worker'[t].step = worker[t].step
            /\ worker'[t].prompt = worker[t].prompt
            /\ obs'[t].genCalls = obs[t].genCalls + 1
            /\ obs'[t].last = obs[t].last
            /\ obs'[t].st = obs[t].st
            /\ files' = files /\ head' = head
            /\ seedlings' = seedlings /\ written' = written
       /\ obs[t].gptErr =>
            /\ worker'[t] = worker[t]
            /\ obs'[t] = obs[t]
            /\ files' = files /\ head' = head
            /\ seedlings' = seedlings /\ written' = written]_vars

C7_Witness ==
  \E t \in Tasks :
    /\ obs[t].gptErr
    /\ worker[t].exit = "gpt"
    /\ worker[t].errs = 2
    /\ worker[t].step = 1

\* C8, as claimed: after an oracle error in the quality check of
\* runSeedling the worker has stopped, and the error did not count against
\* the budget.
C8_GateErrorIsFatal ==
  \A t \in Tasks :
    (Running(t) /\ obs[t].last.msg = "err") =>
      /\ worker[t].pc = "exit"
      /\ worker[t].errs = obs[t].last.errs

\* C9, as claimed: at SeedlingStepServer a verdict other than "good" leaves
\* the build command unrun, adds one to the error counter and sends the
\* worker back to the loop head for the same stage; and the prompt of the
\* next generation call holds the verdict's reason and suggestions.
HoldsVerdict(p, o) ==
  \E k \in 1..Len(p.tail) :
    /\ p.tail[k].k = "diag"
    /\ p.tail[k].r = o.reason
    /\ p.tail[k].s = o.suggestions

C9_NextPrompt ==
  \A t \in Tasks :
    (worker[t].pc = "gen" /\ Rejected(t)) =>
      /\ worker[t].step = ServerIndex
      /\ obs[t].last.reason # ""
      /\ HoldsVerdict(worker[t].prompt, obs[t].last)

C9_RejectionRetries ==
  /\ []C9_NextPrompt
  /\ [][\A t \in Tasks :
          (Attempted(t) /\ obs'[t].last.msg = "Quality check failed") =>
            /\ worker[t].step = ServerIndex
            /\ ~obs'[t].last.verified
            /\ ~obs'[t].last.wrote
            /\ obs'[t].last.verdict # "good"
            /\ worker'[t].errs = worker[t].errs + 1
            /\ worker'[t].step = worker[t].step
            /\ worker'[t].pc = "top"
            /\ worker'[t].errMode]_vars

\* C9, amended: the same, and the stage is retried unless the increment
\* takes the error counter past maxErrs, in which case the worker aborts.
C9_RejectionRetriesInBudget ==
  /\ []C9_NextPrompt
  /\ [][\A t \in Tasks :
          (Attempted(t) /\ obs'[t].last.msg = "Quality check failed") =>
            /\ worker[t].step = ServerIndex
            /\ ~obs'[t].last.verified
            /\ ~obs'[t].last.wrote
            /\ obs'[t].last.verdict # "good"
            /\ obs'[t].st.verify = obs[t].st.verify \/ obs'[t].st = Overflow
            /\ worker'[t].errs = worker[t].errs + 1
            /\ worker'[t].step = worker[t].step
            /\ IF worker'[t].errs > maxErrs
                 THEN worker'[t].exit = "budget"
                 ELSE worker'[t].pc = "top" /\ worker'[t].errMode]_vars

C9_Witness ==
  \E t \in Tasks :
    /\ worker[t].pc = "gen"
    /\ Rejected(t)
    /\ obs[t].last.reason = "r2"
    /\ HoldsVerdict(worker[t].prompt, obs[t].last)

\* C10: at SeedlingStepServer, when the only failed attempts of the stage
\* are two rejections by the gate and every answer of the gate was a
\* verdict: after the two rejections the gate was called twice and the build
\* command not at all; when the third attempt has succeeded the gate was
\* called three times and the build command once; and the worker's next
\* step is the UPDATE to SeedlingStepDockerfile, which advances the stage.
TwoRejections(t) ==
  /\ StageFails(t) = 2
  /\ obs[t].st.rejects = 2
  /\ obs[t].st.unparsed = 0

AtServer(t) == worker[t].step = ServerIndex
PastServer(t) ==
  /\ worker[t].step = ServerIndex + 1
  /\ worker[t].pc = "top"
  /\ ~worker[t].errMode

C10_BadBadGood ==
  /\ [](\A t \in Tasks :
          /\ (TwoRejections(t) /\ AtServer(t)
                /\ worker[t].pc \in { "top", "gen" }) =>
               obs[t].st.gate = 2 /\ obs[t].st.verify = 0
          /\ (TwoRejections(t) /\ AtServer(t) /\ worker[t].pc = "ret") =>
               /\ obs[t].st.gate = 3
               /\ obs[t].st.verify = 1
               /\ obs[t].last.verdict = "good"
               /\ obs[t].last.verified /\ obs[t].last.committed
          /\ (TwoRejections(t) /\ PastServer(t)) =>
               /\ obs[t].st.gate = 3
               /\ obs[t].st.verify = 1
               /\ seedlings[t] = SeedlingStepDockerfile)
  /\ [][\A t \in Tasks :
          (TwoRejections(t) /\ AtServer(t) /\ worker[t].pc = "ret"
             /\ worker'[t] # worker[t] /\ proc' = "up") =>
            PastServer(t)' \/ worker'[t].exit = "db"]_vars

C10_Witness ==
  \E t \in Tasks :
    /\ TwoRejections(t)
    /\ PastServer(t)
    /\ obs[t].st.gate = 3
    /\ obs[t].updates = 2

\* ------------------------------------------------------ claims C11 - C20
Alive(t) == proc' = "up" /\ worker'[t].pc # "none"
Last(t) == obs[t].last

\* C11, as claimed: answers of the gate that cannot be parsed never add to
\* the error counter of the task, whatever their number: an attempt in
\* which nothing else fails leaves the counter as it was.
C11_UnparsedNeverCounts ==
  [][\A t \in Tasks :
       (Attempted(t) /\ Alive(t) /\ Last(t)'.unparsed > 0
          /\ Last(t)'.msg \in { "nil", "max errors exceeded" }) =>
         worker'[t].errs = worker[t].errs]_vars

\* C11, amended: the gate is called again after an answer that cannot be
\* parsed, at most gateMaxErrs = 5 calls in an attempt. Fewer than 5 such
\* answers add nothing to the error counter (it changes by the outcome of
\* the attempt alone); the fifth ends the attempt with "max errors
\* exceeded", nothing written or built, and that failed attempt adds
\* exactly one.
C11_UnparsedOwnAllowance ==
  [][\A t \in Tasks :
       (Attempted(t) /\ Alive(t)) =>
         LET l == Last(t)'
         IN /\ l.unparsed <= gateMaxErrs /\ l.gate <= gateMaxErrs
            /\ l.unparsed > 0 => l.step = ServerIndex
            /\ l.msg = "max errors exceeded" <=> l.unparsed = gateMaxErrs
            /\ l.unparsed = gateMaxErrs =>
                 /\ l.gate = gateMaxErrs
                 /\ ~l.wrote /\ ~l.verified
                 /\ worker'[t].errs = worker[t].errs + 1
            /\ (l.unparsed > 0 /\ l.unparsed < gateMaxErrs) =>
                 /\ l.gate = l.unparsed + 1
                 /\ worker'[t].errs =
                      worker[t].errs + (IF l.msg = "nil" THEN 0 ELSE 1)]_vars

C11_Witness ==
  \E t \in Tasks :
    /\ worker[t].pc = "ret"
    /\ Last(t).unparsed = 1
    /\ Last(t).gate = 2
    /\ Last(t).msg = "nil"
    /\ worker[t].errs = 0

\* C12, as claimed: at SeedlingStepServer the cleaned output is in the file
\* of the stage when the gate is called, and the gate is not called for an
\* attempt whose cleaned output is empty.
C12_WrittenBeforeGate ==
  [][\A t \in Tasks :
       (Attempted(t) /\ Alive(t) /\ Last(t)'.gate > 0) =>
         /\ Last(t)'.candidate # << >>
         /\ files'[worker[t].name][worker[t].step] = Last(t)'.candidate]_vars

\* C13: an attempt whose generated text is empty after the trims writes
\* nothing, does not run the build command, adds exactly one to the error
\* counter and sends the worker back to the same stage, or ends it when the
\* counter passes maxErrs. Where no gate is called the error is "no code
\* to run".
C13_EmptyOutputFails ==
  [][\A t \in Tasks :
       (Attempted(t) /\ Alive(t) /\ Last(t)'.candidate = << >>) =>
         /\ ~Last(t)'.wrote /\ ~Last(t)'.verified /\ ~Last(t)'.committed
         /\ files' = files /\ head' = head
         /\ seedlings' = seedlings /\ written' = written
         /\ Last(t)'.msg # "nil"
         /\ Last(t)'.gate = 0 => Last(t)'.msg = "no code to run"
         /\ worker'[t].errs = worker[t].errs + 1
         /\ worker'[t].step = worker[t].step
         /\ IF worker'[t].errs > maxErrs
              THEN worker'[t].exit = "budget"
              ELSE worker'[t].pc = "top" /\ worker'[t].errMode]_vars

C13_Witness ==
  \E t \in Tasks :
    /\ Last(t).msg = "no code to run"
    /\ Last(t).candidate = << >>
    /\ worker[t].pc = "gen"
    /\ worker[t].errs = 1
    /\ files[worker[t].name] = InitialFiles

\* C14, as claimed: every diagnostic put after the prompt for a failed
\* attempt has at most tailLines = 25 lines.
C14_DiagnosticBounded ==
  \A t \in Tasks :
    \A k \in 1..Len(worker[t].prompt.tail) :
      worker[t].prompt.tail[k].k = "diag" =>
        worker[t].prompt.tail[k].n <= tailLines

\* C15: within one run of a worker every value of prompt has the value
\* before it as a prefix: q extends p when q is not shorter and the last
\* segments of q are those of p followed by what was added.
Extends(p, q) ==
  /\ q.len >= p.len
  /\ q.len - p.len <= PromptWindow
  /\ q.tail = LastN(p.tail \o LastN(q.tail, q.len - p.len), PromptWindow)

C15_PromptAppendOnly ==
  [][\A t \in Tasks :
       (Running(t) /\ Alive(t)) =>
         Extends(worker[t].prompt, worker'[t].prompt)]_vars

C15_Witness ==
  \E t \in Tasks :
    /\ StepAt(worker[t].step) = SeedlingStepExampleClientCall
    /\ worker[t].pc = "gen"
    /\ worker[t].errs > 1
    /\ worker[t].prompt.len > 2 * PromptWindow

\* C16, as claimed: within one stage the generated .pb.go files are parsed
\* at most once, however many retries the stage needs.
C16_ParsedOncePerStage ==
  \A t \in Tasks : obs[t].parses <= 1

\* C17: the error counter is the number of failed attempts of the worker
\* over all its stages (every failed attempt adds one, nothing else changes
\* it, an advance leaves it as it is), and the worker aborts on the budget
\* exactly at failed attempt maxErrs + 1 = 16, in whichever stage.
C17_BudgetIsPerTask ==
  /\ [](\A t \in Tasks :
          /\ worker[t].exit = "budget" => worker[t].errs = maxErrs + 1
          /\ (Running(t) /\ worker[t].exit # "budget") =>
               worker[t].errs <= maxErrs)
  /\ [][\A t \in Tasks :
          (Running(t) /\ Alive(t)) =>
            worker'[t].errs =
              worker[t].errs
                + (IF Attempted(t) /\ Last(t)'.msg # "nil" THEN 1 ELSE 0)]_vars

C17_Witness ==
  \E t \in Tasks :
    /\ worker[t].exit = "budget"
    /\ StepAt(worker[t].step) = SeedlingStepExampleClientCall
    /\ obs[t].errs0 > 0
    /\ StageFails(t) < maxErrs

\* C18: the step in which a worker aborts on the budget stores nothing,
\* and the stored step of an aborted task is the one its last advance
\* stored, or the one of its creation when it never advanced.
C18_NoWriteAtAbort ==
  /\ [][\A t \in Tasks :
          (worker'[t].exit = "budget" /\ worker[t].exit # "budget") =>
            seedlings' = seedlings /\ written' = written]_vars
  /\ [](\A t \in Tasks :
          worker[t].exit = "budget" =>
            seedlings[t] = IF written[t] = << >> THEN SeedlingStepProtobufs
                           ELSE written[t][Len(written[t])])

C18_Witness ==
  \E t \in Tasks :
    /\ worker[t].exit = "budget"
    /\ Len(written[t]) = 2
    /\ seedlings[t] = SeedlingStepDockerfile

\* A goroutine of the task is in its loop.
Active(t) == worker[t].pc \in { "top", "gen", "ret" }

\* C19, as claimed: a step of the worker of one task leaves the process up
\* and the worker of every other task as it is.
C19_FailureStaysInTask ==
  [][\A t, u \in Tasks :
       (t # u /\ worker'[t] # worker[t] /\ Active(u)) =>
         proc' = "up" /\ worker'[u] = worker[u]]_vars

\* C20, as claimed: no two workers that are in their loops at the same time
\* have written files of the same directory under repos/default.
C20_SingleWriter ==
  \A t, u \in Tasks :
    (t # u /\ Active(t) /\ Active(u) /\ Last(t).wrote /\ Last(u).wrote) =>
      worker[t].name # worker[u].name

\* C21: over all workers, at most one docker build command (the build
\* command of SeedlingStepDockerfile) is running at any time.
Building(t) ==
  /\ worker[t].pc \in { "build", "hung" }
  /\ StepAt(worker[t].step) = SeedlingStepDockerfile

C21_OneBuildAtATime ==
  Cardinality({ t \in Tasks : Building(t) }) <= 1

\* C22: a worker that called the verification command gets an outcome:
\* whenever a worker is in the command, it is later out of it (the attempt
\* was classified and the worker went on or stopped).
InCommand(t) == worker[t].pc \in { "build", "hung" }

C22_VerifierReturns ==
  \A t \in TaskPair : InCommand(t) ~> ~InCommand(t)

\* C23: an attempt that finds the directory of the task gone when it
\* writes the artifact stops the worker: the error counter is as before
\* and the worker has left its loop (no further oracle call).
C23_VanishedDirIsFatal ==
  [][\A t \in TaskPair :
       ( /\ Attempted(t)
         /\ worker[t].name \notin dirs
         /\ obs'[t].last.msg = "write" )
       => /\ worker'[t].pc = "exit"
          /\ worker'[t].errs = worker[t].errs]_vars

\* C24: an attempt at a stage that succeeded before (the stored step is
\* past it), in which the oracle returns the committed content of the
\* artifact and the working tree has no change to commit, succeeds: the
\* error counter, the files and the commits are as before and the worker
\* goes on to the advance.
Rerun(t) ==
  /\ Attempted(t)
  /\ seedlings[t] # Absent
  /\ StepIndex(seedlings[t]) > worker[t].step
  /\ files = head
  /\ obs'[t].last.wrote
  /\ obs'[t].last.candidate = head[worker[t].name][worker[t].step]

C24_RerunIsIdempotent ==
  [][\A t \in SingleTask :
       Rerun(t)
       => /\ obs'[t].last.msg = "nil"
          /\ worker'[t].errs = worker[t].errs
          /\ worker'[t].pc = "ret"
          /\ files' = files
          /\ head' = head]_vars

\* C25: a worker at SeedlingStepComplete runs docker run once and leaves
\* its loop, also when the command fails: docker run is called only there
\* and only by a worker that has not called it, and that step makes no
\* call of the oracle and leaves the seedlings table as it is.
AtTerminal(t) ==
  /\ proc = "up"
  /\ worker[t].pc = "top"
  /\ StepAt(worker[t].step) = SeedlingStepComplete

C25_LaunchOnce ==
  [][\A t \in SingleTask :
       (AtTerminal(t) \/ obs'[t].launches # obs[t].launches)
       => /\ AtTerminal(t)
          /\ obs[t].launches = 0
          /\ obs'[t].launches = 1
          /\ worker'[t].pc \in { "exit", "none" }
          /\ obs'[t].genCalls = obs[t].genCalls
          /\ obs'[t].st = obs[t].st
          /\ seedlings' = seedlings
          /\ written' = written]_vars

\* docker run failed and the worker has returned after its one launch.
C25_Witness ==
  \E t \in SingleTask :
    /\ worker[t].pc = "exit"
    /\ worker[t].exit = "docker run"
    /\ obs[t].launches = 1
    /\ seedlings[t] = SeedlingStepComplete

\* C29: for every string, the result of cleanFilePath holds only lower
\* case letters, digits, "-", "_" and "."; a space inside the string (after
\* the trim) is a "_" in the result; and cleanFilePath of the result is the
\* result.
SafeChars == { "a", "b", "c", "0", "_", "-", "." }

Count(c, str) == Cardinality({ k \in 1..Len(str) : str[k] = c })

C29_CleanFilePath ==
  call.done =>
    /\ \A k \in 1..Len(call.cleanedPath) : call.cleanedPath[k] \in SafeChars
    /\ Count("_", call.cleanedPath)
         = Count(" ", TrimSpace(call.file)) + Count("_", call.file)
    /\ cleanFilePath(call.cleanedPath) = call.cleanedPath

\* An upper case letter, an inner space and a character outside the class.
C29_Witness ==
  /\ call.done
  /\ call.file = << "A", " ", "/" >>
  /\ call.cleanedPath = << "a", "_" >>

\* C30: the step of a row is set by CreateSeedling, to
\* SeedlingStepProtobufs, and by the UPDATE of the worker after a stage,
\* to the next step, and by nothing else; a step that changes the name of
\* a row (UpdateSeedling) leaves its step as it is.
C30_StepWriters ==
  [][\A t \in Tasks :
       /\ (seedlings'[t] # seedlings[t] /\ seedlings'[t] # Absent)
            => \/ /\ seedlings[t] = Absent
                  /\ seedlings'[t] = SeedlingStepProtobufs
               \/ /\ worker[t].pc = "ret"
                  /\ seedlings'[t] = StepAt(worker[t].step + 1)
       /\ (names'[t] # names[t] /\ seedlings[t] # Absent
             /\ seedlings'[t] # Absent)
            => seedlings'[t] = seedlings[t]]_vars

\* The row was renamed by UpdateSeedling after its step had advanced.
C30_Witness ==
  \E t \in SingleTask :
    /\ names[t] = << "c", "/" >>
    /\ seedlings[t] = SeedlingStepDockerfile
    /\ worker[t].name = << "a", "_", "b" >>

\* C26: under the gptThread of garden/main.go, a worker that has ended
\* without an error has made 3 UPDATEs of step, to SeedlingStepServer,
\* SeedlingStepDockerfile and SeedlingStepComplete in that order, and the
\* stored step is SeedlingStepComplete; if every attempt succeeded (each
\* call of the oracle was followed by an advance) it has made 3 calls of
\* the oracle and its error counter is 0.
GardenDone(t) ==
  /\ worker[t].pc = "exit"
  /\ worker[t].exit \in { "complete", "run complete" }

FirstTime(t) == obs[t].genCalls = obs[t].updates

C26_ThreeCallsThreeWrites ==
  \A t \in SingleTask :
    GardenDone(t) =>
      /\ obs[t].updates = 3
      /\ written[t] = << SeedlingStepServer, SeedlingStepDockerfile,
                         SeedlingStepComplete >>
      /\ seedlings[t] = SeedlingStepComplete
      /\ FirstTime(t) => (obs[t].genCalls = 3 /\ worker[t].errs = 0)

C26_Witness ==
  \E t \in SingleTask :
    /\ GardenDone(t)
    /\ FirstTime(t)
    /\ obs[t].genCalls = 3
    /\ head[worker[t].name][2] # Placeholder

\* C27: under the gptThread of garden/main.go, the prompt of the call of
\* the oracle that follows a failed attempt at the same stage holds the
\* generated text of that attempt and, after it, its diagnostic of at most
\* gardenTailLines lines, at every stage.
HoldsFailure(p, o, ct) ==
  \E k \in 1..(Len(p.tail) - 1) :
    /\ p.tail[k].k = "gptOutput"
    /\ CleanOutput(p.tail[k].o, ct) = o.candidate
    /\ p.tail[k + 1].k = "diag"
    /\ p.tail[k + 1].n <= gardenTailLines

C27_RetryPromptHoldsFailure ==
  \A t \in SingleTask :
    ( /\ worker[t].pc = "gen"
      /\ obs[t].last.msg \notin { "", "nil" }
      /\ obs[t].last.step = worker[t].step
      /\ worker[t].errs = obs[t].last.errs + 1 )
    => HoldsFailure(worker[t].prompt, obs[t].last, codeType(worker[t].step))

\* C28: under the gptThread of garden/main.go, an attempt whose build
\* command fails (exit status or start error, with or without output)
\* adds one to the error counter and, within the budget, sends the worker
\* back to the loop head at the same stage.
C28_CommandFailureCounts ==
  [][\A t \in SingleTask :
       ( /\ Attempted(t)
         /\ obs'[t].last.msg \in { "exit status 1", "exec" } )
       => /\ worker'[t].errs = worker[t].errs + 1
          /\ worker'[t].errs <= gardenMaxErrs
               => /\ worker'[t].pc = "top"
                  /\ worker'[t].step = worker[t].step]_vars

\* C31: a worker terminates when its calls return. Every step of a worker
\* lowers a measure that is never negative (the failures left in the
\* budget and the stages left, then the position in the loop body), a run
\* makes at most 4 + maxErrs = 19 generation calls, an attempt makes at
\* most gateMaxErrs = 5 calls of the Quality Gate; the measure is 0 only
\* out of the loop (exit, or the process has ended).
MaxGenCalls == (Len(steps) - 1) + maxErrs

Rank(pc) == CASE pc = "top" -> 2 [] pc = "gen" -> 1 [] OTHER -> 0

Measure(w) ==
  IF w.pc \in { "top", "gen", "ret" }
    THEN 3 * ((maxErrs + 1 - w.errs) + (Len(steps) - 1 - w.step)) + Rank(w.pc)
    ELSE 0

C31_Terminates ==
  [][\A t \in SingleTask :
       /\ obs'[t].genCalls <= MaxGenCalls
       /\ obs'[t].last.gate <= gateMaxErrs
       /\ Measure(worker'[t]) >= 0
       /\ (worker[t].pc # "none" /\ worker'[t] # worker[t])
            => Measure(worker'[t]) < Measure(worker[t])
       /\ Measure(worker'[t]) = 0 <=> worker'[t].pc \in { "none", "exit" }]_vars

\* The longest run: 19 generation calls, and the budget is spent.
C31_Witness ==
  \E t \in SingleTask :
    /\ obs[t].genCalls = MaxGenCalls
    /\ worker[t].pc = "exit"
    /\ worker[t].exit = "budget"

\* C32: the commit of a successful attempt precedes the UPDATE that
\* advances past its stage: a step that stores a later step for a task
\* follows an attempt of the task at the stage before it that was
\* verified and committed; and in every state, for each stage before the
\* stored step of a task, the last commit holds an artifact of the stage
\* that is not the file of initGoRepo.
Stored(t) == seedlings'[t] # seedlings[t] /\ StepIndex(seedlings'[t]) > 0

C32_CommitBeforeAdvance ==
  [][\A t \in SingleTask :
       /\ (seedlings[t] # Absent /\ seedlings'[t] # Absent /\ Stored(t))
            => /\ obs[t].last.msg = "nil"
               /\ obs[t].last.verified
               /\ obs[t].last.committed
               /\ StepAt(obs[t].last.step + 1) = seedlings'[t]
       /\ seedlings'[t] # Absent
            => \A i \in Stages :
                 i < StepIndex(seedlings'[t])
                   => head'[names'[t]][i] # InitialFiles[i]]_vars

\* After a restart the worker is again at the first stage while the stored
\* step is a later one.
C32_Witness ==
  \E t \in SingleTask :
    /\ crashes = 1
    /\ seedlings[t] = SeedlingStepExampleClientCall
    /\ worker[t].pc = "gen"
    /\ worker[t].step = 0

\* C33: a commit made by the worker of one task leaves out the artifact
\* that the worker of another task has written and whose build command
\* has not exited yet: the committed content at that path is as before.
C33_CommitOwnArtifactOnly ==
  [][\A t \in TaskPair : \A u \in TaskPair \ { t } :
       ( /\ Attempted(t)
         /\ obs'[t].last.committed
         /\ InCommand(u)
         /\ worker[u].name # worker[t].name )
       => head'[worker[u].name][worker[u].step]
            = head[worker[u].name][worker[u].step]]_vars

\* C34: in every state in which the stored step of a task is
\* SeedlingStepComplete, docker run has been called for the task, or a
\* worker of the task is in its loop and will call it, or the process is
\* down and its next start will start such a worker.
C34_CompleteIsLaunched ==
  \A t \in SingleTask :
    seedlings[t] = SeedlingStepComplete
    => \/ obs[t].launches > 0
       \/ proc = "up" /\ Active(t)
       \/ proc = "down" /\ crashes < MaxCrashes /\ Resumed(t)

\* C35: after DeleteSeedling has succeeded for a task (its row is gone and
\* the removal of its files is committed), the worker of the task makes
\* no call of the oracle, writes no artifact, makes no commit and no
\* UPDATE of step.
DeletedDone(t) ==
  /\ worker[t].pc # "none"
  /\ t \in Deleted
  /\ head[worker[t].name] = NoFiles

C35_DeletedWorkerIsQuiet ==
  [][\A t \in TaskPair :
       DeletedDone(t)
       => /\ obs'[t].genCalls = obs[t].genCalls
          /\ ~Attempted(t)
          /\ obs'[t].updates = obs[t].updates]_vars

\* C36: a CreateSeedling that starts no worker (it answered with an error)
\* leaves no row: a step from a state without a row of the task to a state
\* without a worker of the task is a step to a state without a row.
C36_CreateAllOrNothing ==
  [][\A t \in SingleTask :
       (seedlings[t] = Absent /\ proc' = "up" /\ worker'[t].pc = "none")
       => seedlings'[t] = Absent]_vars

\* C37: the cleaned form of every accepted (non-empty) name is a proper
\* subdirectory name: it is not empty, not "." and not "..".
C37_ProperSubdirectory ==
  (call.done /\ call.file # << >>)
  => call.cleanedPath \notin { << >>, << "." >>, << ".", "." >> }

\* C38: at every generation call the template of the stage has entered the
\* prompt exactly once in this run (and the template of every earlier
\* stage once, of every later stage never), errMode is false, and the
\* prompt ends with the opening fence of the stage's code type.
C38_TemplateOncePerStage ==
  \A t \in SingleTask :
    worker[t].pc = "gen"
    => LET w == worker[t]
       IN /\ \A i \in 1..(Len(steps) - 1) :
               obs[t].tmpl[i] = IF i <= w.step + 1 THEN 1 ELSE 0
          /\ ~w.errMode
          /\ w.prompt.tail # << >>
          /\ w.prompt.tail[Len(w.prompt.tail)] =
               Seg("fence", codeType(w.step))

\* A generation call of the last stage after retries in every stage.
C38_Witness ==
  \E t \in SingleTask :
    /\ worker[t].pc = "gen"
    /\ StepAt(worker[t].step) = SeedlingStepExampleClientCall
    /\ worker[t].errs >= Len(steps) - 1
    /\ obs[t].genCalls >= 2 * (Len(steps) - 1) - 1
    /\ ~Templated(worker[t].prompt)
    /\ obs[t].tmpl[worker[t].step + 1] = 1

\* C39: the stage index of a worker is within 0..len(steps)-1, and a worker
\* that is in an attempt or before the UPDATE (where steps[step+1] is
\* read) is not at the last entry: step+1 is within bounds.
C39_StepInBounds ==
  \A t \in SingleTask :
    worker[t].pc # "none"
    => /\ worker[t].step \in 0..(Len(steps) - 1)
       /\ worker[t].pc \in { "gen", "run", "build", "hung", "ret" }
          => worker[t].step + 1 <= Len(steps) - 1

\* The success branch reads the last entry of steps.
C39_Witness ==
  \E t \in SingleTask :
    /\ worker[t].pc = "ret"
    /\ worker[t].step + 1 = Len(steps) - 1

====
